---- MODULE Spec2Model ----
(***************************************************************************)
(* Signaling relay (room registry + message relay) and the per-peer        *)
(* WebRTC negotiation logic of the video-call client.                      *)
(*                                                                         *)
(*   Spec     : the signaling server, driven by arbitrary clients.         *)
(*   SpecNeg  : two clients negotiating through the relay.                 *)
(***************************************************************************)
EXTENDS Integers, Sequences, FiniteSets, Bags, TLC

(***************************************************************************)
(* Bounds of the server model.                                             *)
(***************************************************************************)
\* longest member list a room may grow to (join-room is refused beyond it)
MaxMembers == 3
\* the same, when signaling messages are relayed as well
MaxMembersSignal == 2

\* transport identifiers socket.io may hand out, and the room codes clients use
Ids == {"A", "B", "C"}
RoomCodes == {"r1", "r2"}

VARIABLES
    rooms,          \* server: const rooms: { [roomId]: string[] }
    connected,      \* server: sockets whose 'connection' fired and 'disconnect' did not
    gone,           \* server: sockets that have disconnected (ids are never reused)
    adapterRooms,   \* socket.io adapter: room name -> set of sockets in it
    delivered,      \* messages the last server handler delivered
    joined,         \* history: room code -> ids that sent join-room and are still connected
    lastOp,         \* history: the handler that ran last, its socket and the rooms it touched
    client,         \* client: per participant, the state of its VideoCall component
    inbox,          \* transport: per participant, the events the server sent it, in order
    session         \* client: one VideoCall component with its timers and status flags

srvVars == <<rooms, connected, gone, adapterRooms, delivered, joined, lastOp>>
cliVars == <<client, inbox, session>>

\* names a socket.io room can have: every socket is in the room of its own id
RoomNames == RoomCodes \cup Ids

NoId == "none"

\* the events the server relays
SignalEvents == {"offer", "answer", "ice-candidate"}

\* descriptions are told apart by their type only
NoDesc == "null"

\* one delivered message: a membership notice (subject, list) or a relayed
\* signaling message (from, desc, cand)
Msg(to, event, subject, list) ==
    [to |-> to, event |-> event, subject |-> subject, list |-> list,
     from |-> NoId, desc |-> NoDesc, cand |-> 0]

\* io.to(to).emit(event, { payload, from: socket.id })
RelayMsg(to, event, from, desc, cand) ==
    [to |-> to, event |-> event, subject |-> NoId, list |-> <<>>,
     from |-> from, desc |-> desc, cand |-> cand]

(***************************************************************************)
(* Array helpers (Array.prototype.indexOf / splice / filter).              *)
(***************************************************************************)
SeqToSet(s) == {s[i] : i \in 1..Len(s)}

\* indexOf: first position of x, 0 when absent (JavaScript: -1)
IndexOf(s, x) ==
    IF x \in SeqToSet(s)
    THEN CHOOSE i \in 1..Len(s) : s[i] = x /\ \A j \in 1..(i-1) : s[j] # x
    ELSE 0

\* splice(index, 1)
Splice1(s, i) == SubSeq(s, 1, i-1) \o SubSeq(s, i+1, Len(s))

\* filter(id => id !== x), order kept
RECURSIVE FilterOut(_, _)
FilterOut(s, x) ==
    IF s = <<>> THEN <<>>
    ELSE IF Head(s) = x THEN FilterOut(Tail(s), x)
         ELSE <<Head(s)>> \o FilterOut(Tail(s), x)

(***************************************************************************)
(* Server handlers.                                                        *)
(***************************************************************************)
\* rooms after lines 44-49: create the entry when absent, then push
RoomsAfterJoin(rms, id, roomCode) ==
    LET init == IF roomCode \in DOMAIN rms
                THEN rms
                ELSE [r \in DOMAIN rms \cup {roomCode} |->
                         IF r = roomCode THEN <<>> ELSE rms[r]]
    IN [init EXCEPT ![roomCode] = Append(@, id)]

\* socket.join(roomCode): the adapter keeps a set per room
AdapterAfterJoin(ad, id, roomCode) ==
    [ad EXCEPT ![roomCode] = @ \cup {id}]

\* mutant: the notice goes to the whole room, sender included (io.to)
BroadcastTargets_ToAll(ad, id, roomCode) == ad[roomCode]

\* socket.to(roomCode).emit(...): every socket of the room except the sender
BroadcastTargets(ad, id, roomCode) == ad[roomCode] \ {id}

\* io.to(name).emit(...): every socket of the room, sender included
IoTargets(ad, name) == ad[name]

\* mutant: existing-users is sent even when nobody else is in the room
JoinDelivered_AlwaysSnapshot(rms, ad, id, roomCode) ==
    {Msg(t, "user-connected", id, <<>>) : t \in BroadcastTargets(ad, id, roomCode)}
    \cup {Msg(id, "existing-users", NoId, FilterOut(rms[roomCode], id))}

\* what join-room delivers: user-connected to the others, existing-users to the caller
JoinDelivered(rms, ad, id, roomCode) ==
    LET otherUsersInRoom == FilterOut(rms[roomCode], id)
    IN  {Msg(t, "user-connected", id, <<>>) : t \in BroadcastTargets(ad, id, roomCode)}
        \cup
        (IF Len(otherUsersInRoom) > 0
         THEN {Msg(id, "existing-users", NoId, otherUsersInRoom)}
         ELSE {})

\* one iteration of the disconnect loop on a room that holds the id
RoomAfterRemove(list, id) == Splice1(list, IndexOf(list, id))

\* the rooms whose iteration takes the index !== -1 branch
RoomsHolding(rms, id) == {r \in DOMAIN rms : IndexOf(rms[r], id) # 0}

\* mutant: the emptied room keeps its entry (no delete)
RoomsAfterDisconnect_NoDelete(rms, id) ==
    [r \in DOMAIN rms |-> IF IndexOf(rms[r], id) = 0 THEN rms[r]
                          ELSE Splice1(rms[r], IndexOf(rms[r], id))]

\* rooms after the whole disconnect loop
RoomsAfterDisconnect(rms, id) ==
    LET keep == {r \in DOMAIN rms :
                    IndexOf(rms[r], id) = 0 \/ Len(RoomAfterRemove(rms[r], id)) > 0}
    IN [r \in keep |-> IF IndexOf(rms[r], id) = 0 THEN rms[r]
                       ELSE RoomAfterRemove(rms[r], id)]

\* socket.io leaves every room before 'disconnect' fires
AdapterAfterLeaveAll(ad, id) == [n \in DOMAIN ad |-> ad[n] \ {id}]

\* what the disconnect loop delivers: user-disconnected to each room that held the id
DisconnectDelivered(rms, ad, id) ==
    UNION {{Msg(t, "user-disconnected", id, <<>>) : t \in IoTargets(ad, r)} :
              r \in {q \in DOMAIN rms : IndexOf(rms[q], id) # 0}}

\* the object a client sends with offer / answer / ice-candidate: the handler
\* destructures roomCode, the payload and to; any other field (from) is not read
Data(roomCode, to, desc, cand, from) ==
    [roomCode |-> roomCode, to |-> to, desc |-> desc, cand |-> cand, from |-> from]

NoData == Data(NoId, NoId, NoDesc, 0, NoId)

\* mutant: the relay forwards the from field the client supplied
RelayDelivered_ClientFrom(ad, id, event, data) ==
    {RelayMsg(t, event, data.from, data.desc, data.cand) : t \in IoTargets(ad, data.to)}

\* mutant: the relay sends to the whole server (io.emit)
RelayDelivered_Everyone(ad, id, event, data) ==
    {RelayMsg(t, event, id, data.desc, data.cand) : t \in UNION {ad[n] : n \in DOMAIN ad}}

\* offer / answer / ice-candidate: relayed to the room named by `to`, stamped with
\* the sender's socket id
RelayDelivered(ad, id, event, data) ==
    {RelayMsg(t, event, id, data.desc, data.cand) : t \in IoTargets(ad, data.to)}

\* io.on('connection')
Connect(id) ==
    /\ id \notin connected
    /\ id \notin gone
    /\ connected' = connected \cup {id}
    /\ adapterRooms' = [adapterRooms EXCEPT ![id] = {id}]
    /\ delivered' = {}
    /\ lastOp' = [op |-> "connection", id |-> id, rooms |-> {}, data |-> NoData]
    /\ UNCHANGED <<rooms, gone, joined>>

\* socket.on('join-room'): what it does to the server's state
JoinRoomState(id, roomCode, lim) ==
    /\ id \in connected
    /\ roomCode \in DOMAIN rooms => Len(rooms[roomCode]) < lim
    /\ adapterRooms' = AdapterAfterJoin(adapterRooms, id, roomCode)
    /\ rooms' = RoomsAfterJoin(rooms, id, roomCode)
    /\ joined' = [joined EXCEPT ![roomCode] = @ \cup {id}]
    /\ UNCHANGED <<connected, gone>>

\* socket.on('join-room')
JoinRoom(id, roomCode, lim) ==
    /\ JoinRoomState(id, roomCode, lim)
    /\ delivered' = JoinDelivered(rooms', adapterRooms', id, roomCode)
    /\ lastOp' = [op |-> "join-room", id |-> id, rooms |-> {roomCode}, data |-> NoData]

\* socket.on('disconnect')
Disconnect(id) ==
    /\ id \in connected
    /\ connected' = connected \ {id}
    /\ gone' = gone \cup {id}
    /\ LET ad == AdapterAfterLeaveAll(adapterRooms, id)
       IN /\ adapterRooms' = ad
          /\ delivered' = DisconnectDelivered(rooms, ad, id)
    /\ rooms' = RoomsAfterDisconnect(rooms, id)
    /\ joined' = [r \in RoomCodes |-> joined[r] \ {id}]
    /\ lastOp' = [op |-> "disconnect", id |-> id, rooms |-> RoomsHolding(rooms, id),
                  data |-> NoData]

\* what a client can put into a signaling message: the payload goes with the event
Payloads ==
    {Data(roomCode, to, desc, cand, from) :
        roomCode \in {"r1"}, to \in RoomNames, from \in {"A", "B"},
        desc \in {NoDesc}, cand \in {0}}

\* socket.on('offer') / socket.on('answer') / socket.on('ice-candidate')
Relay(id, event, data) ==
    /\ id \in connected
    /\ delivered' = RelayDelivered(adapterRooms, id, event,
                        [data EXCEPT !.desc = IF event = "ice-candidate" THEN NoDesc ELSE event,
                                     !.cand = IF event = "ice-candidate" THEN 1 ELSE 0])
    /\ lastOp' = [op |-> event, id |-> id, rooms |-> {},
                  data |-> [data EXCEPT !.desc = IF event = "ice-candidate" THEN NoDesc ELSE event,
                                        !.cand = IF event = "ice-candidate" THEN 1 ELSE 0]]
    /\ UNCHANGED <<rooms, connected, gone, adapterRooms, joined>>


(***************************************************************************)
(* The client (VideoCall component): two participants of one room.         *)
(***************************************************************************)
Peers == {"A", "B"}
Room == "r1"

\* RTCPeerConnection objects one client creates (negotiation without candidates)
MaxPcs == 2
\* ICE candidates the peer links of one client generate, and the RTCPeerConnection
\* objects one client creates when candidates are exchanged
MaxCand == 2
MaxPcsIce == 1
MaxSent == 2
\* the component on its own: RTCPeerConnection objects it creates, events the
\* server sends it, automatic retries counted per remote
MaxPcsSession == 3
MaxEvents == 3
MaxRetries == 2

\* String.prototype.localeCompare on the identifiers in use; '' sorts first
IdOrder == <<"A", "B", "C">>
Rank(x) == IF x = "" THEN 0 ELSE CHOOSE i \in 1..Len(IdOrder) : IdOrder[i] = x
localeCompare(a, b) ==
    IF Rank(a) < Rank(b) THEN -1 ELSE IF Rank(a) > Rank(b) THEN 1 ELSE 0

(***************************************************************************)
(* RTCPeerConnection: signaling state machine and operations chain.        *)
(***************************************************************************)
\* new RTCPeerConnection(...)
NewPc(u, isInitiator) ==
    [remote |-> u, isInitiator |-> isInitiator, signalingState |-> "stable",
     pendingLocal |-> NoDesc, currentLocal |-> NoDesc,
     pendingRemote |-> NoDesc, currentRemote |-> NoDesc,
     gathering |-> FALSE, applied |-> <<>>, queue |-> <<>>,
     senders |-> <<>>,                \* getSenders(): the kinds of the tracks added
     negotiationNeeded |-> FALSE]     \* a negotiationneeded event is due

localDescription(pc) ==
    IF pc.pendingLocal # NoDesc THEN pc.pendingLocal ELSE pc.currentLocal
remoteDescription(pc) ==
    IF pc.pendingRemote # NoDesc THEN pc.pendingRemote ELSE pc.currentRemote

\* an operation waiting in a peer link's chain, with the continuation of the
\* handler that awaits it: k names the await, u the remote, d the description the
\* handler was given, list the buffered candidates its loop still has to add
Op(op, arg, cand, k, u, d, list) ==
    [op |-> op, arg |-> arg, cand |-> cand, k |-> k, u |-> u, d |-> d, list |-> list]

\* whether the operation succeeds in the peer link's present state
OpOk(pc, o) ==
    CASE o.op = "createOffer" -> pc.signalingState \in {"stable", "have-local-offer"}
      [] o.op = "createAnswer" -> pc.signalingState = "have-remote-offer"
      [] o.op = "setLocalDescription" ->
            CASE o.arg = "offer" -> pc.signalingState \in {"stable", "have-local-offer"}
              [] o.arg = "answer" -> pc.signalingState = "have-remote-offer"
              [] OTHER -> pc.signalingState \in {"have-local-offer", "have-remote-offer"}
      [] o.op = "setRemoteDescription" ->
            CASE o.arg = "offer" ->
                    pc.signalingState \in {"stable", "have-local-offer", "have-remote-offer"}
              [] OTHER -> pc.signalingState = "have-local-offer"
      [] OTHER -> remoteDescription(pc) # NoDesc

\* the peer link after a successful operation
OpEffect(pc, o) ==
    CASE o.op = "setLocalDescription" /\ o.arg = "offer" ->
            [pc EXCEPT !.signalingState = "have-local-offer", !.pendingLocal = "offer",
                       !.gathering = TRUE]
      [] o.op = "setLocalDescription" /\ o.arg = "answer" ->
            [pc EXCEPT !.signalingState = "stable", !.currentLocal = "answer",
                       !.currentRemote = pc.pendingRemote,
                       !.pendingLocal = NoDesc, !.pendingRemote = NoDesc,
                       !.gathering = TRUE]
      [] o.op = "setLocalDescription" /\ o.arg = "rollback" ->
            [pc EXCEPT !.signalingState = "stable",
                       !.pendingLocal = NoDesc, !.pendingRemote = NoDesc]
      [] o.op = "setRemoteDescription" /\ o.arg = "offer" ->
            [pc EXCEPT !.signalingState = "have-remote-offer", !.pendingRemote = "offer",
                       !.pendingLocal = NoDesc]
      [] o.op = "setRemoteDescription" /\ o.arg = "answer" ->
            [pc EXCEPT !.signalingState = "stable", !.currentRemote = "answer",
                       !.currentLocal = pc.pendingLocal,
                       !.pendingLocal = NoDesc, !.pendingRemote = NoDesc]
      [] o.op = "addIceCandidate" -> [pc EXCEPT !.applied = Append(@, o.cand)]
      [] OTHER -> pc

(***************************************************************************)
(* Component state and helpers.                                            *)
(***************************************************************************)
InitClient ==
    [phase |-> "init",
     pcs |-> <<>>,                                     \* the RTCPeerConnection objects made so far
     peerConnectionsRef |-> [u \in Peers |-> 0],       \* remote id -> object, 0 when absent
     iceCandidateBufferRef |-> [u \in Peers |-> <<>>], \* remote id -> buffered candidates
     connectedUsers |-> <<>>,
     timers |-> EmptyBag,                              \* pending setTimeout callbacks
     candidates |-> 0,                                 \* candidates generated so far
     shouldAcceptOffer |-> "unset",                    \* the last glare decision taken
     firstOffer |-> "none",                            \* state the first offer was received in
     offersSent |-> 0,                                 \* 'offer' events emitted so far
     answersSent |-> 0,                                \* 'answer' events emitted so far
     lateOffer |-> FALSE,                              \* an offer left once both sides were stable
     out |-> <<>>]                                     \* what the running step emitted

\* socket.emit(event, { roomCode, ..., to })
Emit(c, event, to, desc, cand) ==
    [c EXCEPT !.out = Append(@, [event |-> event, to |-> to, desc |-> desc, cand |-> cand]),
              !.offersSent = IF event = "offer" /\ @ < MaxSent THEN @ + 1 ELSE @,
              !.answersSent = IF event = "answer" /\ @ < MaxSent THEN @ + 1 ELSE @]

\* setTimeout(callback): t names the callback, u and pc what it closed over
AddTimer(c, t, u, k) ==
    [c EXCEPT !.timers = @ (+) SetToBag({[t |-> t, u |-> u, pc |-> k]})]

\* getUserMedia({ video: true, audio: true }): the tracks of the local stream; the
\* localStream state is null until setLocalStream has been rendered
LocalStream == <<"audio", "video">>
NoStream == <<>>

\* "Add local tracks to the connection": a track is skipped when a sender of its
\* kind exists; addTrack marks the peer link as needing negotiation
AddLocalTracks(pc, localStream) ==
    LET existingSenderKinds == SeqToSet(pc.senders)
        added == SelectSeq(localStream, LAMBDA track : track \notin existingSenderKinds)
    IN [pc EXCEPT !.senders = @ \o added,
                  !.negotiationNeeded = @ \/ added # <<>>]

\* createPeerConnection(userId, isInitiator) in a render whose localStream state
\* is localStream
createPeerConnectionWith(c, u, isInitiator, localStream) ==
    IF c.peerConnectionsRef[u] # 0 THEN c
    ELSE LET c1 == [c EXCEPT !.pcs = Append(@, AddLocalTracks(NewPc(u, isInitiator),
                                                              localStream)),
                             !.peerConnectionsRef[u] = Len(c.pcs) + 1]
         IN IF isInitiator THEN AddTimer(c1, "init", u, 0) ELSE c1

\* mutant: a new peer link is made even when the remote has a record
createPeerConnection_AlwaysNew(c, u, isInitiator) ==
    LET c1 == [c EXCEPT !.pcs = Append(@, NewPc(u, isInitiator)),
                        !.peerConnectionsRef[u] = Len(c.pcs) + 1]
    IN IF isInitiator THEN AddTimer(c1, "init", u, 0) ELSE c1

\* mutant: the 1 s offer timer is armed for a responder record as well
createPeerConnection_AlwaysTimer(c, u, isInitiator) ==
    IF c.peerConnectionsRef[u] # 0 THEN c
    ELSE AddTimer([c EXCEPT !.pcs = Append(@, NewPc(u, isInitiator)),
                            !.peerConnectionsRef[u] = Len(c.pcs) + 1],
                  "init", u, 0)

\* createPeerConnection(userId, isInitiator) as the socket handlers call it: they
\* are registered by the effect of the first render ([roomCode, navigate]) and keep
\* its createPeerConnection, whose localStream is null
createPeerConnection(c, u, isInitiator) ==
    createPeerConnectionWith(c, u, isInitiator, NoStream)

\* mutant: the operations in the chain of a closed peer link still settle
ClosePc_OpsSettle(c, k) ==
    [c EXCEPT !.pcs[k].signalingState = "closed"]

\* pc.close(): operations still in the chain never settle
ClosePc(c, k) ==
    [c EXCEPT !.pcs[k].signalingState = "closed", !.pcs[k].queue = <<>>]

RECURSIVE Cont(_, _, _, _)

\* await pc.op(...): the operation joins the chain of the peer link; on a closed
\* peer link it rejects at once and the handler goes on in the same task
Await(c, k, o) ==
    IF c.pcs[k].signalingState = "closed"
    THEN Cont(c, k, o, FALSE)
    ELSE [c EXCEPT !.pcs[k].queue = Append(@, o)]

\* createAndSendOffer(peerConnection, userId), up to its first await
createAndSendOffer(c, k, u) ==
    IF c.pcs[k].signalingState = "closed" THEN c
    ELSE Await(c, k, Op("createOffer", NoDesc, 0, "cso_created", u, NoDesc, <<>>))

\* what follows the loop over the buffered candidates
AfterFlush(c, k, o, label) ==
    IF label = "off_flush"
    THEN Await(c, k, [o EXCEPT !.op = "createAnswer", !.k = "off_answer"])
    ELSE c

\* one turn of: for (const candidate of bufferedCandidates) await pc.addIceCandidate
FlushNext(c, k, o, label) ==
    IF o.list # <<>>
    THEN Await(c, k, [o EXCEPT !.op = "addIceCandidate", !.cand = Head(o.list),
                               !.list = Tail(o.list), !.k = label])
    ELSE AfterFlush([c EXCEPT !.iceCandidateBufferRef[o.u] = <<>>], k, o, label)

\* "Process any buffered ICE candidates"
FlushStart(c, k, o, label) ==
    IF Len(c.iceCandidateBufferRef[o.u]) > 0
    THEN FlushNext(c, k, [o EXCEPT !.list = c.iceCandidateBufferRef[o.u]], label)
    ELSE AfterFlush(c, k, o, label)

\* the awaits of the offer handler's unexpected-state branch (its try block)
UnexpectedLabels == {"oth_rolled", "oth_srd", "oth_answer", "oth_sld"}

\* offer handler, catch blocks: close, delete, recreate as responder, accept there
RecreateResponder(c, k, o) ==
    LET c1 == ClosePc(c, k)
        c2 == [c1 EXCEPT !.peerConnectionsRef[o.u] = 0]
        c3 == createPeerConnection(c2, o.u, FALSE)
    IN Await(c3, c3.peerConnectionsRef[o.u],
             [o EXCEPT !.op = "setRemoteDescription", !.arg = o.d,
                       !.k = IF o.k \in UnexpectedLabels THEN "onew_srd" ELSE "new_srd"])

\* answer handler, inner catch: close, delete, recreate as initiator, offer in 1 s
RecreateInitiator(c, k, o) ==
    LET c1 == ClosePc(c, k)
        c2 == [c1 EXCEPT !.peerConnectionsRef[o.u] = 0]
        c3 == createPeerConnection(c2, o.u, TRUE)
    IN AddTimer(c3, "force", o.u, c3.peerConnectionsRef[o.u])

\* the handler code that runs when the awaited operation o on peer link k has
\* settled (ok: fulfilled), up to the handler's next await
Cont(c, k, o, ok) ==
    CASE o.k = "cso_created" ->
            IF ok THEN Await(c, k, [o EXCEPT !.op = "setLocalDescription", !.arg = "offer",
                                             !.k = "cso_set"])
            ELSE c
      [] o.k = "cso_set" -> IF ok THEN AddTimer(c, "send", o.u, k) ELSE c
      [] o.k = "off_srd" -> IF ok THEN FlushStart(c, k, o, "off_flush") ELSE c
      [] o.k = "off_flush" -> FlushNext(c, k, o, "off_flush")
      [] o.k = "off_answer" ->
            IF ok THEN Await(c, k, [o EXCEPT !.op = "setLocalDescription", !.arg = "answer",
                                             !.k = "off_sld"])
            ELSE c
      [] o.k = "off_sld" -> IF ok THEN Emit(c, "answer", o.u, "answer", 0) ELSE c
      [] o.k = "rb_rolled" ->
            IF ok THEN Await(c, k, [o EXCEPT !.op = "setRemoteDescription", !.arg = o.d,
                                             !.k = "rb_srd"])
            ELSE RecreateResponder(c, k, o)
      [] o.k = "rb_srd" ->
            IF ok THEN Await(c, k, [o EXCEPT !.op = "createAnswer", !.k = "rb_answer"])
            ELSE RecreateResponder(c, k, o)
      [] o.k = "rb_answer" ->
            IF ok THEN Await(c, k, [o EXCEPT !.op = "setLocalDescription", !.arg = "answer",
                                             !.k = "rb_sld"])
            ELSE RecreateResponder(c, k, o)
      [] o.k = "rb_sld" ->
            IF ok THEN Emit(c, "answer", o.u, "answer", 0) ELSE RecreateResponder(c, k, o)
      [] o.k = "oth_rolled" ->
            IF ok THEN Await(c, k, [o EXCEPT !.op = "setRemoteDescription", !.arg = o.d,
                                             !.k = "oth_srd"])
            ELSE RecreateResponder(c, k, o)
      [] o.k = "oth_srd" ->
            IF ok THEN Await(c, k, [o EXCEPT !.op = "createAnswer", !.k = "oth_answer"])
            ELSE RecreateResponder(c, k, o)
      [] o.k = "oth_answer" ->
            IF ok THEN Await(c, k, [o EXCEPT !.op = "setLocalDescription", !.arg = "answer",
                                             !.k = "oth_sld"])
            ELSE RecreateResponder(c, k, o)
      [] o.k = "oth_sld" ->
            IF ok THEN Emit(c, "answer", o.u, "answer", 0) ELSE RecreateResponder(c, k, o)
      [] o.k = "onew_srd" ->
            IF ok THEN Await(c, k, [o EXCEPT !.op = "createAnswer", !.k = "onew_answer"])
            ELSE c
      [] o.k = "onew_answer" ->
            IF ok THEN Await(c, k, [o EXCEPT !.op = "setLocalDescription", !.arg = "answer",
                                             !.k = "onew_sld"])
            ELSE c
      [] o.k = "onew_sld" -> IF ok THEN Emit(c, "answer", o.u, "answer", 0) ELSE c
      [] o.k = "new_srd" ->
            IF ok THEN Await(c, k, [o EXCEPT !.op = "createAnswer", !.k = "new_answer"])
            ELSE c
      [] o.k = "new_answer" ->
            IF ok THEN Await(c, k, [o EXCEPT !.op = "setLocalDescription", !.arg = "answer",
                                             !.k = "new_sld"])
            ELSE c
      [] o.k = "new_sld" -> IF ok THEN Emit(c, "answer", o.u, "answer", 0) ELSE c
      [] o.k = "ans_srd" ->
            IF ok THEN FlushStart(c, k, o, "ans_flush")
            ELSE IF c.pcs[k].signalingState = "stable"
                 THEN AddTimer(c, "restart", o.u, 0)
                 ELSE c
      [] o.k = "ans_flush" -> FlushNext(c, k, o, "ans_flush")
      [] o.k = "ansx_rolled" ->
            IF ok THEN Await(c, k, [o EXCEPT !.op = "setRemoteDescription", !.arg = o.d,
                                             !.k = "ansx_srd"])
            ELSE RecreateInitiator(c, k, o)
      [] o.k = "ansx_srd" -> IF ok THEN c ELSE RecreateInitiator(c, k, o)
      [] OTHER -> c

(***************************************************************************)
(* Socket event handlers, up to their first await.                         *)
(***************************************************************************)
shouldAcceptOffer_Never(from, socketId) == FALSE
shouldAcceptOffer_Always(from, socketId) == TRUE
shouldAcceptOffer_Reversed(from, socketId) == localeCompare(from, socketId) < 0

\* glare: "the peer with the lower ID should accept the other's offer"
shouldAcceptOffer(from, socketId) == localeCompare(from, socketId) > 0

\* socket.on('user-connected')
OnUserConnected(c, userId) ==
    createPeerConnection([c EXCEPT !.connectedUsers = Append(@, userId)], userId, TRUE)

\* socket.on('existing-users'): userIds.forEach(createPeerConnection(userId, true))
RECURSIVE OnExistingUsers(_, _)
OnExistingUsers(c, userIds) ==
    IF userIds = <<>> THEN c
    ELSE OnExistingUsers(
            createPeerConnection([c EXCEPT !.connectedUsers = Append(@, Head(userIds))],
                                 Head(userIds), TRUE),
            Tail(userIds))

\* socket.on('offer')
OnOffer(self, c, from, offer) ==
    LET c0 == createPeerConnection(c, from, FALSE)
        k == c0.peerConnectionsRef[from]
        pc == c0.pcs[k]
        c1 == IF c.firstOffer = "none"
              THEN [c0 EXCEPT !.firstOffer = pc.signalingState]
              ELSE c0
        o == Op("setRemoteDescription", offer, 0, "off_srd", from, offer, <<>>)
        rb == Op("setLocalDescription", "rollback", 0, "rb_rolled", from, offer, <<>>)
    IN CASE pc.signalingState = "stable" -> Await(c1, k, o)
         [] pc.signalingState = "have-local-offer" ->
                IF shouldAcceptOffer(from, self)
                THEN Await([c1 EXCEPT !.shouldAcceptOffer = "true"], k, rb)
                ELSE [c1 EXCEPT !.shouldAcceptOffer = "false"]
         [] OTHER -> Await(c1, k, [rb EXCEPT !.k = "oth_rolled"])

\* socket.on('answer')
OnAnswer(c, from, answer) ==
    LET k == c.peerConnectionsRef[from]
        pc == c.pcs[k]
        o == Op("setRemoteDescription", answer, 0, "ans_srd", from, answer, <<>>)
    IN IF k = 0 THEN c
       ELSE CASE pc.signalingState = "have-local-offer" -> Await(c, k, o)
              [] pc.signalingState = "stable" -> AddTimer(c, "resync", from, 0)
              [] pc.signalingState = "have-remote-offer" ->
                    Await(c, k, [o EXCEPT !.op = "setLocalDescription",
                                          !.arg = "rollback", !.k = "ansx_rolled"])
              [] OTHER -> Await(c, k, [o EXCEPT !.k = "ansx_srd"])

\* socket.on('ice-candidate')
OnIceCandidate(c, from, candidate) ==
    LET k == c.peerConnectionsRef[from]
    IN IF k = 0 THEN c
       ELSE IF remoteDescription(c.pcs[k]) # NoDesc
            THEN Await(c, k, Op("addIceCandidate", NoDesc, candidate, "ice_add",
                                from, NoDesc, <<>>))
            ELSE [c EXCEPT !.iceCandidateBufferRef[from] = Append(@, candidate)]

\* dispatch of one received event
OnEvent(self, c, m) ==
    CASE m.event = "user-connected" -> OnUserConnected(c, m.subject)
      [] m.event = "existing-users" -> OnExistingUsers(c, m.list)
      [] m.event = "offer" -> OnOffer(self, c, m.from, m.desc)
      [] m.event = "answer" -> OnAnswer(c, m.from, m.desc)
      [] m.event = "ice-candidate" -> OnIceCandidate(c, m.from, m.cand)
      [] OTHER -> c

(***************************************************************************)
(* Timer callbacks.                                                        *)
(***************************************************************************)
\* createPeerConnection, initiator: setTimeout(..., 1000)
OnInitTimer(c, u) ==
    LET k == c.peerConnectionsRef[u]
        pc == c.pcs[k]
        c1 == IF pc.signalingState # "stable" /\ remoteDescription(pc) # NoDesc
              THEN Await(c, k, Op("setLocalDescription", "rollback", 0, "init_rb",
                                  u, NoDesc, <<>>))
              ELSE c
    IN IF k = 0 THEN c ELSE createAndSendOffer(c1, k, u)

\* createAndSendOffer: setTimeout(..., 100) and its fallback setTimeout(..., 1000)
OnSendTimer(c, t) ==
    LET pc == c.pcs[t.pc]
    IN IF localDescription(pc) # NoDesc
       THEN Emit(c, "offer", t.u, localDescription(pc), 0)
       ELSE IF t.t = "send" THEN AddTimer(c, "send2", t.u, t.pc) ELSE c

\* mutant: the resync callback does not look at the signaling state
OnResyncTimer_NoStableCheck(c, u) ==
    LET k == c.peerConnectionsRef[u]
    IN IF k # 0 THEN createAndSendOffer(c, k, u) ELSE c

\* answer handler, stable branch: setTimeout(..., 2000)
OnResyncTimer(c, u) ==
    LET k == c.peerConnectionsRef[u]
    IN IF k # 0 /\ c.pcs[k].signalingState = "stable"
       THEN createAndSendOffer(c, k, u)
       ELSE c

\* answer handler, outer catch: setTimeout(..., 2000)
OnRestartTimer(c, u) ==
    LET k == c.peerConnectionsRef[u]
    IN IF k # 0 THEN createAndSendOffer(c, k, u) ELSE c

\* retryVideoConnection(userId): close, delete, recreate as initiator, offer in 1 s
retryVideoConnection(c, userId) ==
    LET k == c.peerConnectionsRef[userId]
        c1 == ClosePc(c, k)
        c2 == [c1 EXCEPT !.peerConnectionsRef[userId] = 0,
                         !.retried[userId] = IF @ < MaxRetries THEN @ + 1 ELSE @]
    IN IF k = 0 THEN c
       ELSE AddTimer(createPeerConnectionWith(c2, userId, TRUE, LocalStream),
                     "reoffer", userId, 0)

\* retryVideoConnection: setTimeout(..., 1000)
OnReofferTimer(c, u) ==
    LET k == c.peerConnectionsRef[u]
    IN IF k # 0 THEN createAndSendOffer(c, k, u) ELSE c

\* mutant: the event is ignored
OnNegotiationNeeded_Never(c, k) == c

\* peerConnection.onnegotiationneeded of peer link k
OnNegotiationNeeded(c, k) ==
    IF c.pcs[k].isInitiator THEN createAndSendOffer(c, k, c.pcs[k].remote) ELSE c

OnTimer(c, t) ==
    CASE t.t = "init" -> OnInitTimer(c, t.u)
      [] t.t \in {"send", "send2"} -> OnSendTimer(c, t)
      [] t.t = "resync" -> OnResyncTimer(c, t.u)
      [] t.t = "restart" -> OnRestartTimer(c, t.u)
      [] t.t = "retry" -> retryVideoConnection(c, t.u)
      [] t.t = "reoffer" -> OnReofferTimer(c, t.u)
      [] OTHER -> createAndSendOffer(c, t.pc, t.u)

(***************************************************************************)
(* Steps of the two-client system.                                         *)
(***************************************************************************)
\* the server handler for what the client emitted in this step (at most one
\* event); what it delivers goes to the inboxes
ServerHandles(id, out) ==
    /\ UNCHANGED <<delivered, lastOp>>
    /\ IF out = <<>> \/ out[1].event # "join-room"
       THEN UNCHANGED <<rooms, connected, gone, adapterRooms, joined>>
       ELSE JoinRoomState(id, out[1].to, MaxMembers)

\* what that handler delivers
ServerDelivers(id, out) ==
    IF out = <<>> THEN {}
    ELSE IF out[1].event = "join-room"
         THEN JoinDelivered(rooms', adapterRooms', id, out[1].to)
         ELSE RelayDelivered(adapterRooms, id, out[1].event,
                             Data(Room, out[1].to, out[1].desc, out[1].cand, NoId))

\* the events a server handler delivered to participant q
DeliveredTo(d, q) ==
    LET mine == {m \in d : m.to = q}
    IN IF mine = {} THEN <<>> ELSE <<CHOOSE m \in mine : TRUE>>

\* the other participant of the two
Other(p) == CHOOSE q \in Peers : q # p

\* the peer link p keeps for the other participant is stable with a negotiated
\* remote description
Negotiated(p) ==
    LET k == client[p].peerConnectionsRef[Other(p)]
    IN k # 0 /\ client[p].pcs[k].signalingState = "stable"
             /\ client[p].pcs[k].currentRemote # NoDesc

\* a client step: c is the component state it leaves, rest the inbox it leaves,
\* lim the number of peer links the client may have created
ClientStep(p, c, rest, lim) ==
    /\ Len(c.pcs) <= lim
    /\ Len(c.out) <= 1
    /\ client' = [client EXCEPT ![p] =
                    [c EXCEPT !.out = <<>>,
                              !.lateOffer = @ \/ (/\ c.out # <<>>
                                                  /\ c.out[1].event = "offer"
                                                  /\ \A q \in Peers : Negotiated(q))]]
    /\ ServerHandles(p, c.out)
    /\ inbox' = [q \in Peers |->
                    (IF q = p THEN rest ELSE inbox[q])
                    \o DeliveredTo(ServerDelivers(p, c.out), q)]
    /\ UNCHANGED session

\* getUserMedia resolved: join the room, register the handlers
Start(p, lim) ==
    /\ client[p].phase = "init"
    /\ ClientStep(p, Emit([client[p] EXCEPT !.phase = "joined"], "join-room", Room,
                          NoDesc, 0),
                  inbox[p], lim)

\* the next event from the server is dispatched to its handler
Receive(p, lim) ==
    /\ client[p].phase = "joined"
    /\ inbox[p] # <<>>
    /\ ClientStep(p, OnEvent(p, client[p], Head(inbox[p])), Tail(inbox[p]), lim)

\* the operation at the head of a peer link's chain settles and the handler that
\* awaited it runs to its next await
RunOp(p, k, lim) ==
    /\ k \in 1..Len(client[p].pcs)
    /\ client[p].pcs[k].queue # <<>>
    /\ LET pc == client[p].pcs[k]
           o == Head(pc.queue)
           ok == OpOk(pc, o)
           pc1 == [(IF ok THEN OpEffect(pc, o) ELSE pc) EXCEPT !.queue = Tail(pc.queue)]
       IN ClientStep(p, Cont([client[p] EXCEPT !.pcs[k] = pc1], k, o, ok), inbox[p], lim)

\* every timer a client can have pending
AllTimers ==
    [t : {"init", "send", "send2", "resync", "restart", "force", "retry", "reoffer"},
     u : Peers, pc : 0..(MaxPcs + MaxPcsIce + MaxPcsSession)]

\* a pending timer fires
FireTimer(p, t, lim) ==
    /\ BagIn(t, client[p].timers)
    /\ LET c == [client[p] EXCEPT !.timers = @ (-) SetToBag({t})]
       IN ClientStep(p, OnTimer(c, t), inbox[p], lim)

\* pc.onicecandidate: the peer link gathered a candidate
GenCandidate(p, k, lim) ==
    /\ k \in 1..Len(client[p].pcs)
    /\ client[p].pcs[k].gathering
    /\ client[p].pcs[k].signalingState # "closed"
    /\ client[p].candidates < MaxCand
    /\ ClientStep(p, Emit([client[p] EXCEPT !.candidates = @ + 1], "ice-candidate",
                          client[p].pcs[k].remote, NoDesc, client[p].candidates + 1),
                  inbox[p], lim)

(***************************************************************************)
(* One component on its own: its socket id is Self, the remotes are Peers, *)
(* and the server, the remotes and the browser send it whatever they can.  *)
(***************************************************************************)
Self == "C"

InitSession ==
    InitClient @@
    [media |-> {},                          \* peerMediaReceivedRef
     connectionTimedOut |-> FALSE,
     stall |-> FALSE,                       \* the 15 s timer of the timeout effect is pending
     effect |-> FALSE,                      \* the timeout effect is due: its dependencies changed
     networkStatus |-> "checking",
     peers |-> [u \in Peers |-> "none"],    \* the peers state: no entry, entry with stream null, with a stream
     retried |-> [u \in Peers |-> 0],       \* history: automatic retries of the record of a remote
     emitted |-> {},                        \* history: the events emitted so far
     sent |-> [k \in 1..MaxPcsSession |-> 0], \* history: offers sent from each peer link
     events |-> 0]                          \* history: events received so far

\* mutant: the remote that left stays in the list of known participants
OnUserDisconnected_KeepsUser(c, userId) ==
    LET k == c.peerConnectionsRef[userId]
    IN IF k = 0 THEN c
       ELSE [ClosePc(c, k) EXCEPT !.peerConnectionsRef[userId] = 0,
                                  !.peers[userId] = "none"]

\* socket.on('user-disconnected')
OnUserDisconnected(c, userId) ==
    LET k == c.peerConnectionsRef[userId]
    IN IF k = 0 THEN c
       ELSE [ClosePc(c, k) EXCEPT !.peerConnectionsRef[userId] = 0,
                                  !.peers[userId] = "none",
                                  !.connectedUsers = FilterOut(@, userId)]

\* whether the handler of the event calls setConnectedUsers: the new array makes
\* the timeout effect run again
SetsConnectedUsers(c, m) ==
    \/ m.event \in {"user-connected", "existing-users"}
    \/ m.event = "user-disconnected" /\ c.peerConnectionsRef[m.subject] # 0

\* dispatch of one received event; before getUserMedia has resolved, and after it
\* was rejected, no handler is registered
OnSessionEvent(c, m) ==
    IF c.phase # "joined" THEN c
    ELSE [(IF m.event = "user-disconnected"
           THEN OnUserDisconnected(c, m.subject)
           ELSE OnEvent(Self, c, m))
          EXCEPT !.effect = SetsConnectedUsers(c, m)]

\* what the server can send the component: both remotes join and leave, the
\* first of them negotiates
SessionEvents ==
    {Msg(Self, e, u, <<>>) : e \in {"user-connected", "user-disconnected"}, u \in Peers}
    \cup {Msg(Self, "existing-users", NoId, l) : l \in {<<"A", "B">>}}
    \cup {RelayMsg(Self, e, "A", e, 0) : e \in {"offer", "answer"}}

\* the same with one remote that joins and answers the offers it is sent
MonitorEvents ==
    {Msg(Self, "user-connected", "A", <<>>), RelayMsg(Self, "answer", "A", "answer", 0)}

\* one remote that joins, answers and sends a candidate
BufferEvents ==
    {Msg(Self, "user-connected", "A", <<>>), RelayMsg(Self, "answer", "A", "answer", 0),
     RelayMsg(Self, "ice-candidate", "A", NoDesc, 1)}

\* a step of the component: c is the state it leaves
SessionStep(c) ==
    /\ Len(c.pcs) <= MaxPcsSession
    /\ session' = [c EXCEPT !.out = <<>>,
                            !.emitted = @ \cup {c.out[i].event : i \in 1..Len(c.out)}]
    /\ UNCHANGED <<rooms, connected, gone, adapterRooms, delivered, joined, lastOp,
                   client, inbox>>

\* getUserMedia resolved: join the room, register the handlers
SessionStart ==
    /\ session.phase = "init"
    /\ SessionStep(Emit([session EXCEPT !.phase = "joined"], "join-room", Room, NoDesc, 0))

\* mutant: the rejection of getUserMedia is ignored and the room is joined
SessionMediaFails_JoinsAnyway ==
    /\ session.phase = "init"
    /\ SessionStep(Emit([session EXCEPT !.phase = "failed"], "join-room", Room, NoDesc, 0))

\* getUserMedia rejected: the catch logs and alerts
SessionMediaFails ==
    /\ session.phase = "init"
    /\ SessionStep([session EXCEPT !.phase = "failed"])

\* an event arrives from the server
SessionReceive(m) ==
    /\ ~session.effect
    /\ session.events < MaxEvents
    /\ SessionStep(OnSessionEvent([session EXCEPT !.events = @ + 1], m))

\* an awaited operation of peer link k settles and its handler goes on
SessionRunOp(k) ==
    /\ ~session.effect
    /\ k \in 1..Len(session.pcs)
    /\ session.pcs[k].queue # <<>>
    /\ LET pc == session.pcs[k]
           o == Head(pc.queue)
           ok == OpOk(pc, o)
           pc1 == [(IF ok THEN OpEffect(pc, o) ELSE pc) EXCEPT !.queue = Tail(pc.queue)]
       IN SessionStep(Cont([session EXCEPT !.pcs[k] = pc1], k, o, ok))

\* a pending setTimeout callback runs
SessionFireTimer(t) ==
    /\ ~session.effect
    /\ BagIn(t, session.timers)
    /\ LET c == OnTimer([session EXCEPT !.timers = @ (-) SetToBag({t})], t)
       IN SessionStep(IF t.pc # 0 /\ c.out # <<>> /\ c.out[1].event = "offer"
                      THEN [c EXCEPT !.sent[t.pc] = IF @ < MaxSent THEN @ + 1 ELSE @]
                      ELSE c)

\* pc.ontrack of peer link k: media of its remote arrived
SessionOnTrack(k) ==
    /\ ~session.effect
    /\ k \in 1..Len(session.pcs)
    /\ session.pcs[k].signalingState # "closed"
    /\ remoteDescription(session.pcs[k]) # NoDesc
    /\ SessionStep([session EXCEPT !.media = @ \cup {session.pcs[k].remote},
                                   !.peers[session.pcs[k].remote] = "stream"])

\* pc.oniceconnectionstatechange of peer link k: connected
SessionIceConnected(k) ==
    /\ ~session.effect
    /\ k \in 1..Len(session.pcs)
    /\ session.pcs[k].signalingState # "closed"
    /\ session.pcs[k].currentLocal # NoDesc
    /\ session.pcs[k].currentRemote # NoDesc
    /\ SessionStep([session EXCEPT !.networkStatus = "connected",
                                   !.peers[session.pcs[k].remote] =
                                        IF @ = "none" THEN "null" ELSE @])

\* the browser fires negotiationneeded on peer link k: tracks were added, the link
\* is stable and its operations chain is empty
SessionNegotiationNeeded(k) ==
    /\ ~session.effect
    /\ k \in 1..Len(session.pcs)
    /\ session.pcs[k].negotiationNeeded
    /\ session.pcs[k].signalingState = "stable"
    /\ session.pcs[k].queue = <<>>
    /\ SessionStep(OnNegotiationNeeded(
                      [session EXCEPT !.pcs[k].negotiationNeeded = FALSE], k))

\* the timeout effect runs: the cleanup of its last run clears the timer, then a
\* timer is armed, or the stalled status is reset
SessionEffect ==
    /\ session.effect
    /\ SessionStep(
          IF Len(session.connectedUsers) > 0 /\ session.media = {}
          THEN [session EXCEPT !.stall = TRUE, !.effect = FALSE]
          ELSE IF session.media # {} /\ session.connectionTimedOut
               THEN [session EXCEPT !.stall = FALSE, !.connectionTimedOut = FALSE,
                                    !.effect = TRUE]
               ELSE [session EXCEPT !.stall = FALSE, !.effect = FALSE])

\* the 15 s timer of the timeout effect expires
SessionStallTimer ==
    /\ ~session.effect
    /\ session.stall
    /\ SessionStep([session EXCEPT !.stall = FALSE, !.connectionTimedOut = TRUE,
                                   !.effect = ~session.connectionTimedOut])

\* handleForceRetry: Object.entries(peerConnectionsRef.current) is taken once, so
\* the records made by the loop are not visited
ForceRetryFromFirst(c) ==
    LET n == Len(c.pcs)
        RECURSIVE Go(_, _)
        Go(cc, k) ==
            IF k > n THEN cc
            ELSE LET u == cc.pcs[k].remote
                     c1 == [ClosePc(cc, k) EXCEPT !.peerConnectionsRef[u] = 0]
                 IN IF cc.peerConnectionsRef[u] # k THEN Go(cc, k + 1)
                    ELSE Go(IF u \in SeqToSet(c.connectedUsers)
                            THEN createPeerConnectionWith(c1, u, TRUE, LocalStream)
                            ELSE c1, k + 1)
    IN Go(c, 1)

\* the Retry Connection button: shown while the stalled status is up, somebody is
\* known and the peers list is empty
SessionForceRetry ==
    /\ ~session.effect
    /\ session.connectionTimedOut
    /\ Len(session.connectedUsers) > 0
    /\ \A u \in Peers : session.peers[u] = "none"
    /\ SessionStep([ForceRetryFromFirst(session) EXCEPT !.connectionTimedOut = FALSE,
                                                       !.networkStatus = "checking",
                                                       !.effect = TRUE])

\* a tick of the playback monitor (every 10 s) that finds a peer without stream and
\* resets; the 500 ms timers of the tick before have run by then
SessionMonitor ==
    /\ ~session.effect
    /\ session.phase = "joined"
    /\ \A t \in BagToSet(session.timers) : t.t # "retry"
    /\ \E u \in Peers :
          /\ session.peers[u] = "null"
          /\ \/ session.peerConnectionsRef[u] # 0
             \/ \E v \in Peers : session.peers[v] = "stream"
    /\ ~session.connectionTimedOut
    /\ session.networkStatus # "failed"
    /\ SessionStep([session EXCEPT
            !.networkStatus = "failed",
            !.timers = @ (+) SetToBag({[t |-> "retry", u |-> u, pc |-> 0] :
                                          u \in {v \in Peers : session.peers[v] = "null"}})])

\* the component with its stalled-connection timer and the Retry Connection button
NextSession ==
    \/ SessionStart
    \/ SessionMediaFails
    \/ \E m \in SessionEvents : SessionReceive(m)
    \/ \E k \in 1..MaxPcsSession : SessionRunOp(k)
    \/ \E t \in AllTimers : SessionFireTimer(t)
    \/ \E k \in 1..MaxPcsSession : SessionOnTrack(k)
    \/ SessionEffect
    \/ SessionStallTimer
    \/ SessionForceRetry

\* the component with its playback monitor and the negotiationneeded events of the
\* peer links that got the local tracks
NextMonitor ==
    \/ SessionStart
    \/ \E m \in MonitorEvents : SessionReceive(m)
    \/ \E k \in 1..MaxPcsSession : SessionRunOp(k)
    \/ \E t \in AllTimers : SessionFireTimer(t)
    \/ \E k \in 1..MaxPcsSession : SessionIceConnected(k)
    \/ \E k \in 1..MaxPcsSession : SessionNegotiationNeeded(k)
    \/ SessionEffect
    \/ SessionMonitor

\* the component with the candidates of a remote and the Retry Connection button
NextBuffer ==
    \/ SessionStart
    \/ \E m \in BufferEvents : SessionReceive(m)
    \/ \E k \in 1..MaxPcsSession : SessionRunOp(k)
    \/ \E t \in AllTimers : SessionFireTimer(t)
    \/ SessionEffect
    \/ SessionStallTimer
    \/ SessionForceRetry

InitNeg ==
    /\ rooms = <<>>
    /\ connected = Peers
    /\ gone = {}
    /\ adapterRooms = [n \in RoomNames |-> IF n \in Peers THEN {n} ELSE {}]
    /\ delivered = {}
    /\ joined = [r \in RoomCodes |-> {}]
    /\ lastOp = [op |-> "none", id |-> NoId, rooms |-> {}, data |-> NoData]
    /\ client = [p \in Peers |-> InitClient]
    /\ inbox = [p \in Peers |-> <<>>]
    /\ session = InitSession

\* negotiation alone: no candidates are gathered
NextNeg ==
    \/ \E p \in Peers : Start(p, MaxPcs)
    \/ \E p \in Peers : Receive(p, MaxPcs)
    \/ \E p \in Peers, k \in 1..MaxPcs : RunOp(p, k, MaxPcs)
    \/ \E p \in Peers, t \in AllTimers : FireTimer(p, t, MaxPcs)

\* negotiation with candidates
NextIce ==
    \/ \E p \in Peers : Start(p, MaxPcsIce)
    \/ \E p \in Peers : Receive(p, MaxPcsIce)
    \/ \E p \in Peers, k \in 1..MaxPcsIce : RunOp(p, k, MaxPcsIce)
    \/ \E p \in Peers, t \in AllTimers : FireTimer(p, t, MaxPcsIce)
    \/ \E p \in Peers, k \in 1..MaxPcsIce : GenCandidate(p, k, MaxPcsIce)


Init ==
    /\ rooms = <<>>
    /\ connected = {}
    /\ gone = {}
    /\ adapterRooms = [n \in RoomNames |-> {}]
    /\ delivered = {}
    /\ joined = [r \in RoomCodes |-> {}]
    /\ lastOp = [op |-> "none", id |-> NoId, rooms |-> {}, data |-> NoData]
    /\ client = [p \in Peers |-> InitClient]
    /\ inbox = [p \in Peers |-> <<>>]
    /\ session = InitSession

Next ==
    \/ \E id \in Ids : Connect(id) /\ UNCHANGED cliVars
    \/ \E id \in Ids, roomCode \in RoomCodes :
            JoinRoom(id, roomCode, MaxMembers) /\ UNCHANGED cliVars
    \/ \E id \in Ids : Disconnect(id) /\ UNCHANGED cliVars

(***************************************************************************)
(* The relay of src/backend/server.ts: no registry, socket.io rooms only.  *)
(***************************************************************************)
\* io.emit(...): every connected socket
AllSockets(ad) == UNION {ad[n] : n \in DOMAIN ad}

\* socket.on('join-room'): socket.join, then user-connected to the others
BackendJoinRoom(id, roomCode) ==
    /\ id \in connected
    /\ adapterRooms' = AdapterAfterJoin(adapterRooms, id, roomCode)
    /\ joined' = [joined EXCEPT ![roomCode] = @ \cup {id}]
    /\ delivered' = {Msg(t, "user-connected", id, <<>>) :
                        t \in BroadcastTargets(adapterRooms', id, roomCode)}
    /\ lastOp' = [op |-> "join-room", id |-> id, rooms |-> {roomCode}, data |-> NoData]
    /\ UNCHANGED <<rooms, connected, gone>>

\* socket.on('disconnect'): io.emit('user-disconnected', socket.id)
BackendDisconnect(id) ==
    /\ id \in connected
    /\ connected' = connected \ {id}
    /\ gone' = gone \cup {id}
    /\ adapterRooms' = AdapterAfterLeaveAll(adapterRooms, id)
    /\ delivered' = {Msg(t, "user-disconnected", id, <<>>) : t \in AllSockets(adapterRooms')}
    /\ joined' = [r \in RoomCodes |-> joined[r] \ {id}]
    /\ lastOp' = [op |-> "disconnect", id |-> id,
                  rooms |-> {r \in RoomCodes : id \in joined[r]}, data |-> NoData]
    /\ UNCHANGED rooms

NextBackend ==
    \/ \E id \in Ids : Connect(id) /\ UNCHANGED cliVars
    \/ \E id \in Ids, roomCode \in RoomCodes :
            BackendJoinRoom(id, roomCode) /\ UNCHANGED cliVars
    \/ \E id \in Ids : BackendDisconnect(id) /\ UNCHANGED cliVars
    \/ \E id \in Ids, event \in SignalEvents, data \in Payloads :
            Relay(id, event, data) /\ UNCHANGED cliVars

\* the server with its relay handlers
NextSignal ==
    \/ \E id \in Ids : Connect(id) /\ UNCHANGED cliVars
    \/ \E id \in Ids, roomCode \in RoomCodes :
            JoinRoom(id, roomCode, MaxMembersSignal) /\ UNCHANGED cliVars
    \/ \E id \in Ids : Disconnect(id) /\ UNCHANGED cliVars
    \/ \E id \in Ids, event \in SignalEvents, data \in Payloads :
            Relay(id, event, data) /\ UNCHANGED cliVars

\* getUserMedia resolved, with the relay of src/backend/server.ts: join-room puts
\* the socket into the room and sends user-connected to the others; the joiner
\* is told nothing
StartBackend(p, lim) ==
    /\ client[p].phase = "init"
    /\ p \in connected
    /\ Len(client[p].pcs) <= lim
    /\ client' = [client EXCEPT ![p].phase = "joined"]
    /\ adapterRooms' = AdapterAfterJoin(adapterRooms, p, Room)
    /\ joined' = [joined EXCEPT ![Room] = @ \cup {p}]
    /\ inbox' = [q \in Peers |->
                    inbox[q] \o DeliveredTo({Msg(t, "user-connected", p, <<>>) :
                                                t \in BroadcastTargets(adapterRooms', p, Room)},
                                            q)]
    /\ UNCHANGED <<rooms, connected, gone, delivered, lastOp, session>>

\* two clients and the relay of src/backend/server.ts, with candidates
NextNegBackend ==
    \/ \E p \in Peers : StartBackend(p, MaxPcsIce)
    \/ \E p \in Peers : Receive(p, MaxPcsIce)
    \/ \E p \in Peers, k \in 1..MaxPcsIce : RunOp(p, k, MaxPcsIce)
    \/ \E p \in Peers, t \in AllTimers : FireTimer(p, t, MaxPcsIce)
    \/ \E p \in Peers, k \in 1..MaxPcsIce : GenCandidate(p, k, MaxPcsIce)

vars == <<rooms, connected, gone, adapterRooms, delivered, joined, lastOp, client, inbox,
          session>>

Spec == Init /\ [][Next]_vars

SpecSignal == Init /\ [][NextSignal]_vars

SpecBackend == Init /\ [][NextBackend]_vars

SpecNeg == InitNeg /\ [][NextNeg]_vars

SpecIce == InitNeg /\ [][NextIce]_vars

SpecNegBackend == InitNeg /\ [][NextNegBackend]_vars

SpecSession == Init /\ [][NextSession]_vars

SpecMonitor == Init /\ [][NextMonitor]_vars

SpecBuffer == Init /\ [][NextBuffer]_vars

\* the event loop runs whatever is ready: the two-client system does not stop
\* while a handler, an operation or a timer is pending
SpecNegFair == SpecNeg /\ WF_vars(NextNeg)

(***************************************************************************)
(* Properties of the room registry.                                        *)
(***************************************************************************)
\* the member list of a room code, empty when the registry has no entry
MemberList(r) == IF r \in DOMAIN rooms THEN rooms[r] ELSE <<>>

\* how often an id occurs in a list
Occurrences(s, x) == Cardinality({i \in 1..Len(s) : s[i] = x})

\* C1: the member list of every room holds exactly the participants that joined it
\* and have not disconnected, and the room has no entry exactly when that set is empty
C1_MembersExactlyJoined ==
    \A r \in RoomCodes :
        /\ SeqToSet(MemberList(r)) = joined[r]
        /\ (r \notin DOMAIN rooms) <=> (joined[r] = {})

\* C7: a repeated join-room leaves the member list as it was, so no identifier
\* occurs twice in the member list of a room
C7_NoDuplicateMember ==
    \A r \in RoomCodes : \A id \in Ids : Occurrences(MemberList(r), id) <= 1

\* C8: no user-connected notice is delivered to the participant it is about
C8_NoSelfJoinNotice ==
    \A m \in delivered : m.event = "user-connected" => m.to # m.subject

\* a repeated join-room whose notice reached another member
C8_Witness ==
    /\ lastOp.op = "join-room"
    /\ \E r \in lastOp.rooms : Occurrences(MemberList(r), lastOp.id) >= 2
    /\ \E m \in delivered : m.event = "user-connected" /\ m.subject = lastOp.id

\* C9: a room code has a registry entry if and only if its member list is non-empty;
\* a room somebody joined and has not left has an entry
C9_EntryIffNonEmpty ==
    \A r \in RoomCodes :
        /\ (r \in DOMAIN rooms) <=> (MemberList(r) # <<>>)
        /\ r \in DOMAIN rooms => Len(rooms[r]) > 0
        /\ joined[r] # {} => r \in DOMAIN rooms

\* a disconnect removed the last member of a room and the entry went with it,
\* while another room keeps its entry
C9_Witness ==
    /\ lastOp.op = "disconnect"
    /\ \E r \in lastOp.rooms : r \notin DOMAIN rooms
    /\ DOMAIN rooms # {}

\* C10: every participant is in the member list of at most one room code
C10_AtMostOneRoom ==
    \A id \in Ids :
        Cardinality({r \in RoomCodes : id \in SeqToSet(MemberList(r))}) <= 1

(***************************************************************************)
(* Properties of the negotiation between two participants.                 *)
(***************************************************************************)
\* both participants received the other's first offer while holding their own
GlareBoth == \A p \in Peers : client[p].firstOffer = "have-local-offer"

\* nothing is pending anywhere: no event, no operation, no timer
Quiet ==
    \A p \in Peers :
        /\ inbox[p] = <<>>
        /\ client[p].timers = EmptyBag
        /\ client[p].phase = "joined"
        /\ \A k \in 1..Len(client[p].pcs) : client[p].pcs[k].queue = <<>>

\* C2: of two participants that each met the other's offer while holding their own,
\* exactly one yields and the other ignores, and the decision of a participant
\* is the same whenever it is taken
C2_ExactlyOneYields ==
    /\ [](\A p \in Peers :
            (client[p].shouldAcceptOffer # "unset"
             /\ client[Other(p)].shouldAcceptOffer # "unset")
            => client[p].shouldAcceptOffer # client[Other(p)].shouldAcceptOffer)
    /\ [][\A p \in Peers :
            client[p].shouldAcceptOffer # "unset"
            => client'[p].shouldAcceptOffer = client[p].shouldAcceptOffer]_vars

\* both participants have taken their glare decision
C2_Witness ==
    /\ GlareBoth
    /\ \A p \in Peers : client[p].shouldAcceptOffer # "unset"

\* C3, as stated: the participant that yields is the one whose own identifier
\* sorts after the peer's; the one whose identifier sorts before ignores
C3_HigherIdYields ==
    \A p \in Peers :
        /\ client[p].shouldAcceptOffer = "true" => localeCompare(p, Other(p)) > 0
        /\ client[p].shouldAcceptOffer = "false" => localeCompare(p, Other(p)) < 0

\* C3, amended: the participant that yields is the one whose own identifier sorts
\* before the peer's; the participant whose identifier sorts after ignores the
\* incoming offer, keeps its own offer as local description and sends no answer
C3_LowerIdYields ==
    \A p \in Peers :
        LET k == client[p].peerConnectionsRef[Other(p)]
        IN /\ client[p].shouldAcceptOffer = "true" => localeCompare(p, Other(p)) < 0
           /\ client[p].shouldAcceptOffer = "false" => localeCompare(p, Other(p)) > 0
           /\ (GlareBoth /\ localeCompare(p, Other(p)) > 0)
              => /\ client[p].answersSent = 0
                 /\ localDescription(client[p].pcs[k]) = "offer"
           /\ (GlareBoth /\ localeCompare(p, Other(p)) < 0 /\ Negotiated(p))
              => /\ client[p].pcs[k].currentLocal = "answer"
                 /\ client[p].pcs[k].currentRemote = "offer"

\* A, the lower identifier, yielded and answered; B ignored and got the answer
C3_Witness ==
    /\ GlareBoth
    /\ client["A"].shouldAcceptOffer = "true"
    /\ client["B"].shouldAcceptOffer = "false"
    /\ client["A"].answersSent = 1
    /\ \A p \in Peers : Negotiated(p)

\* C5: with reliable ordered delivery the peer links of both participants
\* eventually reach stable with a negotiated remote description
C5_BothReachStable == \A p \in Peers : <>Negotiated(p)

C4_BufferedCandidatesApplied ==
    \A p \in Peers :
        LET k == client[p].peerConnectionsRef[Other(p)]
        IN (/\ k # 0
            /\ client[p].pcs[k].queue = <<>>
            /\ remoteDescription(client[p].pcs[k]) # NoDesc)
           => client[p].iceCandidateBufferRef[Other(p)] = <<>>

(***************************************************************************)
(* Properties of the notices and of the relay.                             *)
(***************************************************************************)
\* the participants the last handler delivered the event to
Recipients(event) == {m.to : m \in {d \in delivered : d.event = event}}

\* the members the registry lists for the rooms the last handler touched
MembersTouched == UNION {SeqToSet(MemberList(r)) : r \in lastOp.rooms}

\* C11: a joined / left notice about P for room R is emitted when P has been added
\* to / removed from the member list of R, and goes to exactly the members of R at
\* that moment other than P
C11_NoticeToExactlyMembers ==
    /\ lastOp.op = "join-room" =>
            /\ lastOp.id \in MembersTouched
            /\ Recipients("user-connected") = MembersTouched \ {lastOp.id}
    /\ lastOp.op = "disconnect" =>
            /\ lastOp.id \notin MembersTouched
            /\ Recipients("user-disconnected") = MembersTouched \ {lastOp.id}

\* C12: in the relay of src/backend/server.ts the left notice about P reaches
\* only participants that joined a room P had joined
C12_LeftNoticeOnlyToRoomMates ==
    lastOp.op = "disconnect" =>
        \A m \in delivered :
            m.event = "user-disconnected" => \E r \in lastOp.rooms : m.to \in joined[r]

Relayed == lastOp.op \in SignalEvents

\* C14: the from field of every relayed offer, answer and candidate is the socket id
\* of the connection that sent it, whatever from field the client put in its payload
C14_FromIsSender ==
    Relayed =>
        /\ \A m \in delivered : m.from = lastOp.id
        /\ \A f \in Ids :
              delivered = RelayDelivered(adapterRooms, lastOp.id, lastOp.op,
                                         [lastOp.data EXCEPT !.from = f])

\* a message was delivered whose sender claimed to be somebody else
C14_Witness ==
    /\ Relayed
    /\ lastOp.data.from # lastOp.id
    /\ delivered # {}

\* C15: a signaling message addressed to an identifier that is not a connected
\* participant is delivered to nobody
C15_UnknownTargetDropped ==
    (Relayed /\ lastOp.data.to \notin connected) => delivered = {}

\* C16: a signaling message is delivered to at most one participant, the one whose
\* identifier equals to, with its payload unchanged
C16_OnlyToRecipient ==
    Relayed =>
        /\ Cardinality(delivered) <= 1
        /\ \A m \in delivered : /\ m.to = lastOp.data.to
                                /\ m.event = lastOp.op
                                /\ m.desc = lastOp.data.desc
                                /\ m.cand = lastOp.data.cand

(***************************************************************************)
(* Properties of the offer and answer handlers.                            *)
(***************************************************************************)
\* the step ran the operation at the head of the chain of peer link k of p: the
\* rest of the chain moved up (what the handler awaits next is behind it), or the
\* handler closed the peer link
RanHead(p, k) ==
    LET q == client[p].pcs[k].queue
        r == client'[p].pcs[k].queue
    IN /\ q # <<>>
       /\ \/ /\ client[p].pcs[k].signalingState # "closed"
             /\ client'[p].pcs[k].signalingState = "closed"
          \/ /\ Len(r) >= Len(q) - 1
             /\ SubSeq(r, 1, Len(q) - 1) = Tail(q)
             /\ ~(Len(r) >= Len(q) /\ SubSeq(r, 1, Len(q)) = q)

\* the peer links p has made
Links(p) == 1..Len(client[p].pcs)

\* C17: a local offer is created only in signaling state stable (a rollback, when
\* one is needed, has run before): createOffer never fulfils in have-local-offer
\* or have-remote-offer
C17_OfferOnlyWhenStable ==
    [][\A p \in Peers : \A k \in Links(p) :
        LET pc == client[p].pcs[k]
        IN (/\ RanHead(p, k)
            /\ Head(pc.queue).op = "createOffer"
            /\ OpOk(pc, Head(pc.queue)))
           => pc.signalingState = "stable"]_vars

\* C18: an offer received while the record is stable is set as remote description,
\* the buffered candidates are applied and cleared, one answer goes to the sender
\* and the record ends stable: none of the operations the handler awaits is
\* rejected
C18_OfferInStableAnswered ==
    [][\A p \in Peers : \A k \in Links(p) :
        LET pc == client[p].pcs[k]
            o == Head(pc.queue)
        IN (RanHead(p, k) /\ o.k \in {"off_srd", "off_answer", "off_sld"})
           => /\ OpOk(pc, o)
              /\ o.k = "off_sld" =>
                    /\ client'[p].pcs[k].signalingState = "stable"
                    /\ client'[p].iceCandidateBufferRef[o.u] = <<>>
                    /\ inbox'[o.u] = Append(inbox[o.u],
                                           RelayMsg(o.u, "answer", p, "answer", 0))]_vars

\* C19: an answer received while the record is in have-local-offer is set as remote
\* description, the buffered candidates are applied and cleared, nothing is sent
\* and the record ends stable: setRemoteDescription is not rejected
C19_AnswerInLocalOfferApplied ==
    [][\A p \in Peers : \A k \in Links(p) :
        LET pc == client[p].pcs[k]
            o == Head(pc.queue)
        IN (RanHead(p, k) /\ o.k \in {"ans_srd", "ans_flush"})
           => /\ o.k = "ans_srd" => OpOk(pc, o)
              /\ inbox' = inbox
              /\ client'[p].pcs[k].queue = Tail(pc.queue) =>
                    /\ client'[p].pcs[k].signalingState = "stable"
                    /\ client'[p].iceCandidateBufferRef[o.u] = <<>>]_vars

\* C20: an answer received while the record is stable changes neither the peer
\* links nor the candidate buffer and sends nothing; when the cooldown it armed
\* expires, an offer is created exactly if a record for the remote exists and is
\* stable, and otherwise nothing happens
C20_StaleAnswerResync ==
    [][\A p \in Peers :
        /\ (/\ inbox[p] # <<>>
            /\ inbox'[p] = Tail(inbox[p])
            /\ Head(inbox[p]).event = "answer"
            /\ client[p].peerConnectionsRef[Head(inbox[p]).from] # 0
            /\ client[p].pcs[client[p].peerConnectionsRef[Head(inbox[p]).from]]
                    .signalingState = "stable")
           => /\ client'[p].pcs = client[p].pcs
              /\ client'[p].iceCandidateBufferRef = client[p].iceCandidateBufferRef
              /\ inbox'[Other(p)] = inbox[Other(p)]
              /\ client'[p].timers =
                    client[p].timers
                    (+) SetToBag({[t |-> "resync", u |-> Head(inbox[p]).from, pc |-> 0]})
        /\ \A t \in {x \in AllTimers : x.t = "resync"} :
            (/\ BagIn(t, client[p].timers)
             /\ client'[p].timers = client[p].timers (-) SetToBag({t}))
            => LET k == client[p].peerConnectionsRef[t.u]
               IN IF k # 0 /\ client[p].pcs[k].signalingState = "stable"
                  THEN /\ Len(client'[p].pcs[k].queue) = Len(client[p].pcs[k].queue) + 1
                       /\ client'[p].pcs[k].queue[Len(client'[p].pcs[k].queue)].op
                            = "createOffer"
                  ELSE /\ client'[p].pcs = client[p].pcs
                       /\ inbox' = inbox]_vars

\* an answer met a stable record, its cooldown expired on a record that was no
\* longer stable, and another cooldown is still running
C20_Witness ==
    \E p \in Peers :
        /\ \E t \in BagToSet(client[p].timers) : t.t = "resync"
        /\ client[p].peerConnectionsRef[Other(p)] # 0
        /\ client[p].pcs[client[p].peerConnectionsRef[Other(p)]].signalingState # "stable"

(***************************************************************************)
(* Properties of the recovery branches.                                    *)
(***************************************************************************)
\* the awaits of the fallback of the unexpected-state branch (its catch block)
FallbackLabels == {"onew_srd", "onew_answer", "onew_sld"}

\* the operations of peer link k of p still waiting behind the head of its chain
Behind(p, k) == {client[p].pcs[k].queue[i] : i \in 2..Len(client[p].pcs[k].queue)}

\* C21: an offer that arrives in a state other than stable and have-local-offer is
\* resolved: the handler rolls back and accepts it, or closes the peer link and
\* accepts it on a fresh responder record; none of the operations of the fallback
\* is rejected, no peer link is closed under a handler that still waits on it, and
\* the handler ends with an answer sent to the offerer and its record stable
C21_UnexpectedOfferResolved ==
    [][\A p \in Peers : \A k \in Links(p) :
        LET pc == client[p].pcs[k]
            o == Head(pc.queue)
        IN /\ (RanHead(p, k) /\ o.k \in FallbackLabels) => OpOk(pc, o)
           /\ (RanHead(p, k) /\ o.k \in {"oth_sld", "onew_sld"} /\ OpOk(pc, o))
              => /\ client'[p].pcs[k].signalingState = "stable"
                 /\ inbox'[o.u] = Append(inbox[o.u],
                                        RelayMsg(o.u, "answer", p, "answer", 0))
           /\ (pc.signalingState # "closed" /\ client'[p].pcs[k].signalingState = "closed")
              => \A b \in Behind(p, k) : b.k \notin UnexpectedLabels \cup FallbackLabels]_vars

\* the awaits of the answer handler's unexpected-state branch
AnswerRecoveryLabels == {"ansx_rolled", "ansx_srd"}

\* the record p keeps for remote u is in the given signaling state
RecordIn(c, u, st) ==
    /\ c.peerConnectionsRef[u] # 0
    /\ c.pcs[c.peerConnectionsRef[u]].signalingState = st

\* C22: an answer that meets a record in have-remote-offer makes the handler roll
\* back and then set the answer; the record is closed and recreated only after one
\* of the two was rejected; no peer link is closed under a handler that waits on
\* it, and when the handler has ended the record kept for the remote is not in
\* have-remote-offer
C22_AnswerInRemoteOfferResolved ==
    [][\A p \in Peers :
        /\ (/\ inbox[p] # <<>>
            /\ inbox'[p] = Tail(inbox[p])
            /\ Head(inbox[p]).event = "answer"
            /\ RecordIn(client[p], Head(inbox[p]).from, "have-remote-offer"))
           => LET k == client[p].peerConnectionsRef[Head(inbox[p]).from]
                  q == client'[p].pcs[k].queue
              IN /\ client'[p].peerConnectionsRef = client[p].peerConnectionsRef
                 /\ Len(q) = Len(client[p].pcs[k].queue) + 1
                 /\ q[Len(q)].op = "setLocalDescription"
                 /\ q[Len(q)].arg = "rollback"
                 /\ q[Len(q)].k = "ansx_rolled"
        /\ \A k \in Links(p) :
            LET pc == client[p].pcs[k]
                o == Head(pc.queue)
                closes == pc.signalingState # "closed"
                          /\ client'[p].pcs[k].signalingState = "closed"
            IN /\ (RanHead(p, k) /\ o.k \in AnswerRecoveryLabels)
                  => /\ closes <=> ~OpOk(pc, o)
                     /\ (o.k = "ansx_rolled" /\ OpOk(pc, o))
                        => /\ client'[p].pcs[k].queue # <<>>
                           /\ client'[p].pcs[k].queue[Len(client'[p].pcs[k].queue)].k
                                = "ansx_srd"
                     /\ (closes \/ o.k = "ansx_srd")
                        => /\ client'[p].peerConnectionsRef[o.u] # 0
                           /\ ~RecordIn(client'[p], o.u, "have-remote-offer")
               /\ closes => \A b \in Behind(p, k) : b.k \notin AnswerRecoveryLabels]_vars

(***************************************************************************)
(* Properties of the candidate handler.                                    *)
(***************************************************************************)
\* C23: a candidate received from a remote is applied at once when the remote
\* description of the remote's record is set, and is appended to the end of the
\* remote's buffer otherwise; it is never dropped: a record exists, the
\* addIceCandidate it was handed to is not rejected, and the peer link is not
\* closed while the candidate still waits in its chain
C23_CandidateAppliedOrBuffered ==
    [][\A p \in Peers :
        /\ (/\ inbox[p] # <<>>
            /\ inbox'[p] = Tail(inbox[p])
            /\ Head(inbox[p]).event = "ice-candidate")
           => LET m == Head(inbox[p])
                  k == client[p].peerConnectionsRef[m.from]
                  q == client'[p].pcs[k].queue
              IN /\ k # 0
                 /\ IF remoteDescription(client[p].pcs[k]) # NoDesc
                    THEN /\ Len(q) = Len(client[p].pcs[k].queue) + 1
                         /\ q[Len(q)].op = "addIceCandidate"
                         /\ q[Len(q)].cand = m.cand
                         /\ client'[p].iceCandidateBufferRef = client[p].iceCandidateBufferRef
                    ELSE /\ q = client[p].pcs[k].queue
                         /\ client'[p].iceCandidateBufferRef[m.from]
                                = Append(client[p].iceCandidateBufferRef[m.from], m.cand)
        /\ \A k \in Links(p) :
            LET pc == client[p].pcs[k]
                o == Head(pc.queue)
            IN /\ (RanHead(p, k) /\ o.k = "ice_add")
                  => /\ OpOk(pc, o)
                     /\ client'[p].pcs[k].applied = Append(pc.applied, o.cand)
               /\ (pc.signalingState # "closed"
                   /\ client'[p].pcs[k].signalingState = "closed")
                  => \A b \in Behind(p, k) : b.k # "ice_add"]_vars

(***************************************************************************)
(* Properties of the creation of records.                                  *)
(***************************************************************************)
\* the remote ids a membership event lists
Listed(m) ==
    IF m.event = "user-connected" THEN {m.subject}
    ELSE IF m.event = "existing-users" THEN SeqToSet(m.list)
    ELSE {}

\* p keeps an initiator record for some remote
HasInitiatorRecord(p) ==
    \E u \in Peers :
        /\ client[p].peerConnectionsRef[u] # 0
        /\ client[p].pcs[client[p].peerConnectionsRef[u]].isInitiator

\* C27: on a membership snapshot or a joined notice the client creates an initiator
\* record, stable and with its 1 s timer armed, for every listed remote id that has
\* none and leaves the records of the others alone; an offer to the remote is sent
\* afterwards
C27_InitiatorRecordOffers ==
    /\ [][\A p \in Peers :
            (inbox[p] # <<>> /\ inbox'[p] = Tail(inbox[p]))
            => \A u \in Listed(Head(inbox[p])) :
                  IF client[p].peerConnectionsRef[u] = 0
                  THEN /\ client'[p].peerConnectionsRef[u] = Len(client[p].pcs) + 1
                       /\ client'[p].pcs[client'[p].peerConnectionsRef[u]]
                            = NewPc(u, TRUE)
                       /\ BagIn([t |-> "init", u |-> u, pc |-> 0], client'[p].timers)
                  ELSE /\ client'[p].peerConnectionsRef[u] = client[p].peerConnectionsRef[u]
                       /\ client'[p].timers = client[p].timers]_vars
    /\ \A p \in Peers : HasInitiatorRecord(p) ~> (client[p].offersSent > 0)

\* C28: an offer from a remote id the client has no record for creates a responder
\* record, stable, with no timer armed, and the offer is handed to it; the
\* operations of that handler are not rejected, it ends with the record stable
\* and one answer sent to the offerer, and a client whose records are all
\* responder records never creates or sends an offer
C28_UnknownOffererAnswered ==
    /\ [](\A p \in Peers :
            (client[p].pcs # <<>> /\ \A k \in Links(p) : ~client[p].pcs[k].isInitiator)
            => /\ client[p].offersSent = 0
               /\ \A k \in Links(p) : \A i \in 1..Len(client[p].pcs[k].queue) :
                     client[p].pcs[k].queue[i].op # "createOffer")
    /\ [][\A p \in Peers :
            /\ (/\ inbox[p] # <<>>
                /\ inbox'[p] = Tail(inbox[p])
                /\ Head(inbox[p]).event = "offer"
                /\ client[p].peerConnectionsRef[Head(inbox[p]).from] = 0)
               => LET u == Head(inbox[p]).from
                      k == client'[p].peerConnectionsRef[u]
                  IN /\ k = Len(client[p].pcs) + 1
                     /\ ~client'[p].pcs[k].isInitiator
                     /\ client'[p].pcs[k].signalingState = "stable"
                     /\ Len(client'[p].pcs[k].queue) = 1
                     /\ client'[p].pcs[k].queue[1].op = "setRemoteDescription"
                     /\ client'[p].pcs[k].queue[1].arg = Head(inbox[p]).desc
                     /\ client'[p].timers = client[p].timers
            /\ \A k \in Links(p) :
                LET pc == client[p].pcs[k]
                    o == Head(pc.queue)
                IN (/\ RanHead(p, k)
                    /\ ~pc.isInitiator
                    /\ o.k \in {"off_srd", "off_flush", "off_answer", "off_sld"})
                   => /\ OpOk(pc, o)
                      /\ o.k = "off_sld" =>
                            /\ client'[p].pcs[k].signalingState = "stable"
                            /\ inbox'[o.u] = Append(inbox[o.u],
                                                   RelayMsg(o.u, "answer", p, "answer", 0))]_vars

\* a responder record made for an unknown offerer has answered, and candidates
\* of the offerer were applied to it
C28_Witness ==
    \E p \in Peers :
        /\ client[p].pcs # <<>>
        /\ ~client[p].pcs[1].isInitiator
        /\ client[p].answersSent = 1
        /\ client[p].pcs[1].signalingState = "stable"
        /\ client[p].pcs[1].applied # <<>>

(***************************************************************************)
(* Properties of the stalled-connection timer and of the retries.          *)
(***************************************************************************)
\* somebody is known and no media has been received
Waiting(c) == Len(c.connectedUsers) > 0 /\ c.media = {}

\* C24: the stalled-connection timer is armed when a remote is known and no media
\* has been received, it is not pending once media has been received from any
\* peer, so the stalled status is never raised after media arrived, and it is
\* armed again after a retry
C24_StallTimerCancelledByMedia ==
    /\ []((session.phase = "joined" /\ ~session.effect /\ Waiting(session)
           /\ ~session.connectionTimedOut)
          => session.stall)
    /\ [](session.media # {} => ~session.stall)
    /\ [][(session.media # {} /\ ~session.connectionTimedOut)
           => ~session'.connectionTimedOut]_vars
    /\ [][(session.effect /\ ~session'.effect /\ Waiting(session))
           => session'.stall]_vars

\* the record kept for remote u is stable with a negotiated remote description
SessionNegotiated(u) ==
    /\ RecordIn(session, u, "stable")
    /\ session.pcs[session.peerConnectionsRef[u]].currentRemote # NoDesc

\* C25: once a record is stable and media of its remote has been received, the
\* stalled status is never set
C25_NoStallAfterMedia ==
    [][(/\ \E u \in Peers : SessionNegotiated(u) /\ u \in session.media
        /\ ~session.connectionTimedOut)
       => ~session'.connectionTimedOut]_vars

\* C26: automatic retry closes and recreates the record of one remote a bounded
\* number of times: the count stays below the number of retries the model follows
C26_RetriesCapped ==
    \A u \in Peers : session.retried[u] < MaxRetries

(***************************************************************************)
(* Properties of a remote leaving and of a failed media acquisition.       *)
(***************************************************************************)
\* the ids in a list
Elems(l) == {l[i] : i \in 1..Len(l)}

\* what user-disconnected(x) must have done between this state and the next
LeftPost(x) ==
    LET k == session.peerConnectionsRef[x]
    IN /\ session'.peerConnectionsRef[x] = 0
       /\ x \notin Elems(session'.connectedUsers)
       /\ Len(session'.pcs) = Len(session.pcs)
       /\ k # 0 => session'.pcs[k].signalingState = "closed"
       /\ \A y \in Peers \ {x} :
             /\ session'.peerConnectionsRef[y] = session.peerConnectionsRef[y]
             /\ (y \in Elems(session.connectedUsers)) = (y \in Elems(session'.connectedUsers))
             /\ session.peerConnectionsRef[y] # 0
                   => session'.pcs[session.peerConnectionsRef[y]]
                        = session.pcs[session.peerConnectionsRef[y]]

\* C29: on user-disconnected(X) the peer link of X is closed and its record removed,
\* X is removed from the known remote participants, and the records of all other
\* remotes are unchanged
C29_MemberLeftRemovesOnlyThatRecord ==
    [][\A x \in Peers :
          SessionReceive(Msg(Self, "user-disconnected", x, <<>>)) => LeftPost(x)]_vars

\* a remote with a record has left while another remote keeps its open record
C29_Witness ==
    \E x \in Peers, y \in Peers :
        /\ x # y
        /\ session.peerConnectionsRef[x] = 0
        /\ x \notin Elems(session.connectedUsers)
        /\ \E k \in 1..Len(session.pcs) :
              session.pcs[k].remote = x /\ session.pcs[k].signalingState = "closed"
        /\ session.peerConnectionsRef[y] # 0
        /\ session.pcs[session.peerConnectionsRef[y]].signalingState # "closed"
        /\ y \in Elems(session.connectedUsers)

\* C30: when getUserMedia is rejected the session is over: no join-room is sent, no
\* record is created, no offer, answer or candidate is sent, no timer is armed, and
\* the acquisition is not tried again
C30_MediaFailureIsFatal ==
    /\ [](session.phase = "failed"
           => /\ session.emitted = {}
              /\ session.out = <<>>
              /\ session.pcs = <<>>
              /\ \A u \in Peers : session.peerConnectionsRef[u] = 0
              /\ session.timers = EmptyBag
              /\ session.offersSent = 0
              /\ ~session.stall)
    /\ [][session.phase = "failed" => session'.phase = "failed"]_vars

\* the acquisition has failed and the server has sent events since
C30_Witness ==
    session.phase = "failed" /\ session.events = MaxEvents

OfferPathLabels == {"cso_created", "cso_set", "init_rb"}

\* a relay handler for remote u is suspended at an await of an open peer link
Suspended(c, u) ==
    \E k \in 1..Len(c.pcs) :
        /\ c.pcs[k].remote = u
        /\ \E i \in 1..Len(c.pcs[k].queue) : c.pcs[k].queue[i].k \notin OfferPathLabels

\* C32: the handler of an offer, answer or candidate of a remote never starts while
\* an earlier handler for the same remote is suspended at an await
C32_HandlersOneAtATime ==
    [][\A p \in Peers :
          (/\ client[p].phase = "joined"
           /\ inbox[p] # <<>>
           /\ inbox'[p] = Tail(inbox[p])
           /\ Head(inbox[p]).event \in SignalEvents)
          => ~Suspended(client[p], Head(inbox[p]).from)]_vars

(***************************************************************************)
(* One record per remote.                                                  *)
(***************************************************************************)
\* the peer links of remote u that are not closed
OpenLinks(c, u) ==
    {k \in 1..Len(c.pcs) : c.pcs[k].remote = u /\ c.pcs[k].signalingState # "closed"}

\* the pending timers of remote u
TimersOf(c, u) ==
    [t \in {x \in BagToSet(c.timers) : x.u = u} |-> c.timers[t]]

\* the remotes a membership event announces
Announced(m) ==
    IF m.event = "user-connected" THEN {m.subject}
    ELSE IF m.event = "existing-users" THEN SeqToSet(m.list) ELSE {}

\* C38: a remote id has at most one record, the only open peer link of that remote;
\* announcing a remote that has a record leaves the record, its peer link and its
\* timers as they are
C38_OneRecordPerRemote ==
    /\ [](\A u \in Peers :
             OpenLinks(session, u) =
                IF session.peerConnectionsRef[u] = 0 THEN {}
                ELSE {session.peerConnectionsRef[u]})
    /\ [][\A m \in SessionEvents : \A u \in Announced(m) :
             (SessionReceive(m) /\ session.peerConnectionsRef[u] # 0)
             => /\ session'.peerConnectionsRef[u] = session.peerConnectionsRef[u]
                /\ session'.pcs[session.peerConnectionsRef[u]]
                     = session.pcs[session.peerConnectionsRef[u]]
                /\ TimersOf(session', u) = TimersOf(session, u)]_vars

\* a remote that has a record was announced again
C38_Witness ==
    \E u \in Peers :
        /\ Occurrences(session.connectedUsers, u) > 1
        /\ session.peerConnectionsRef[u] # 0
        /\ Cardinality({k \in 1..Len(session.pcs) : session.pcs[k].remote = u}) = 1

(***************************************************************************)
(* Local tracks, renegotiation and the offers of a retry.                  *)
(***************************************************************************)
\* C37: once local media was acquired every peer link has the local tracks, each
\* kind once
C37_EveryLinkHasLocalTracks ==
    session.phase = "joined" =>
        \A k \in 1..Len(session.pcs) :
            /\ SeqToSet(session.pcs[k].senders) = SeqToSet(LocalStream)
            /\ Len(session.pcs[k].senders) = Cardinality(SeqToSet(session.pcs[k].senders))

Replacement(c, k) ==
    \E j \in 1..(k - 1) : c.pcs[j].remote = c.pcs[k].remote

\* C35: a retry closes the peer link of the remote, removes its record and creates a
\* new record in initiator role, and one offer, no more, is sent from the new record
C35_RetrySendsOneOffer ==
    /\ [][\A t \in AllTimers :
             (/\ t.t = "retry"
              /\ SessionFireTimer(t)
              /\ session.peerConnectionsRef[t.u] # 0)
             => /\ session'.pcs[session.peerConnectionsRef[t.u]].signalingState = "closed"
                /\ session'.peerConnectionsRef[t.u] = Len(session.pcs) + 1
                /\ session'.pcs[Len(session.pcs) + 1].isInitiator]_vars
    /\ [](\A k \in 1..Len(session.pcs) : Replacement(session, k) => session.sent[k] <= 1)

(***************************************************************************)
(* What closing a record leaves behind.                                    *)
(***************************************************************************)
\* this step closes the peer link of the record of remote u
ClosesRecord(u) ==
    /\ session.peerConnectionsRef[u] # 0
    /\ session.pcs[session.peerConnectionsRef[u]].signalingState # "closed"
    /\ session'.pcs[session.peerConnectionsRef[u]].signalingState = "closed"

\* C31: a step that closes or recreates the record of one remote leaves the records
\* and peer links of all other remotes unchanged
C31_RetryTouchesOneRecord ==
    [][\A u \in Peers :
          ClosesRecord(u)
          => \A v \in Peers \ {u} :
                /\ session'.peerConnectionsRef[v] = session.peerConnectionsRef[v]
                /\ session.peerConnectionsRef[v] # 0
                      => session'.pcs[session.peerConnectionsRef[v]]
                           = session.pcs[session.peerConnectionsRef[v]]]_vars

\* C33: closing a record cancels its timers: a timer armed for a peer link that has
\* been closed since creates no offer and sends none
C33_CloseCancelsTimers ==
    [][\A t \in AllTimers :
          (/\ t.pc # 0
           /\ SessionFireTimer(t)
           /\ session.pcs[t.pc].signalingState = "closed")
          => /\ session'.sent = session.sent
             /\ session'.pcs = session.pcs]_vars

\* C34: when the record of a remote is closed its candidate buffer is discarded, so
\* that no candidate buffered for the closed record is left for a later record
C34_CloseDiscardsBuffer ==
    [][\A u \in Peers :
          ClosesRecord(u) => session'.iceCandidateBufferRef[u] = <<>>]_vars

(***************************************************************************)
(* After a remote has left.                                                *)
(***************************************************************************)
\* the events that make a remote known: a snapshot or notice naming it, its offer
MakesKnown(m, x) ==
    x \in Announced(m) \/ (m.event = "offer" /\ m.from = x)

\* C40: while remote X has no record, a record for X is created only by a snapshot,
\* a notice or an offer of X received in that step, and no handler goes on with a
\* peer link of X: those links stay as they were closed, so nothing is answered,
\* offered or recreated for X by a handler that was suspended when X left
C40_NoRecordAfterMemberLeft ==
    [][\A x \in Peers :
          session.peerConnectionsRef[x] = 0
          => /\ session'.peerConnectionsRef[x] # 0
                => \E m \in SessionEvents : MakesKnown(m, x) /\ SessionReceive(m)
             /\ \A k \in 1..Len(session.pcs) :
                   session.pcs[k].remote = x => session'.pcs[k] = session.pcs[k]]_vars

\* remote X left while the offer handler for X was suspended at its first await,
\* and events arrived afterwards
C40_Witness ==
    \E x \in Peers :
        /\ session.peerConnectionsRef[x] = 0
        /\ \E k \in 1..Len(session.pcs) :
              /\ session.pcs[k].remote = x
              /\ ~session.pcs[k].isInitiator
              /\ session.pcs[k].signalingState = "closed"
              /\ remoteDescription(session.pcs[k]) = NoDesc
        /\ session.events = MaxEvents

====
